---- MODULE Spec2Model ----
(***************************************************************************)
(* Hospital dashboard: the TRUE daily census occupancy computation         *)
(* (compute_daily_true_occupancy), the filtered encounter query            *)
(* (load_admissions) and the one-time bootstrap of the SQLite store        *)
(* (ensure_db_exists, make_sqlite.py), modelled from app_streamlit.py and  *)
(* make_sqlite.py.                                                         *)
(*                                                                         *)
(* Calendar days are the integers 0..MaxDay.  A timestamp is a number of   *)
(* hours since midnight of day 0; the text of a timestamp in the store is  *)
(* a record: kind "iso" with its day and hour, kind "text" for text that   *)
(* is no timestamp, kind "null" for a NULL.                                *)
(***************************************************************************)
EXTENDS Integers, Sequences, FiniteSets, TLC

\* ------------------------------------------------------------ bounds
MaxDay == 2
MaxEnc == 2
MaxBeds == 2

Days == 0..MaxDay
Hours == {0, 23}
Hospitals == {"H1", "H2"}
Units == {"ED", "ICU"}
\* sort order of the group keys (groupby sorts its keys)
HospitalOrder == <<"H1", "H2">>
UnitOrder == <<"ED", "ICU">>

\* ------------------------------------------------------------ values
\* pandas' NaT / SQLite's NULL date: the invalid marker
NaT == -1
\* float results of the occupancy ratio: a fraction, or not-a-number, or infinity
NaN == [num |-> 0, den |-> 0]
Inf == [num |-> 1, den |-> 0]

\* ------------------------------------------------------------ conversions
\* pd.to_datetime(text, errors="coerce"): hours since day 0, NaT if unparsable
to_datetime(raw) ==
  IF raw.kind = "iso" THEN raw.day * 24 + raw.hour ELSE NaT

\* Series.dt.date: the calendar day of a timestamp, NaT stays NaT
dt_date(ts) ==
  IF ts = NaT THEN NaT ELSE ts \div 24

\* SQLite date(text): the calendar day, NULL for NULL or unparsable text
sql_date(raw) ==
  IF raw.kind = "iso" THEN raw.day ELSE NaT

\* ------------------------------------------------------------ census
\* an object-dtype comparison with NaT on the left is False
date_le(a, d) == a # NaT /\ a <= d
date_gt(a, d) == a # NaT /\ a > d

\* line 156: admit_d <= d and discharge_d > d
ActiveNoGuard(e, d) ==
  dt_date(e.admit_ts) <= d /\ (dt_date(e.discharge_ts) > d \/ e.discharge_ts = NaT)
ActiveClosed(e, d) ==
  date_le(dt_date(e.admit_ts), d) /\ ~ date_le(dt_date(e.discharge_ts), d - 1)
     /\ e.discharge_ts # NaT
Active(e, d) ==
  date_le(dt_date(e.admit_ts), d) /\ date_gt(dt_date(e.discharge_ts), d)

\* pd.date_range(date_start, date_end, freq="D").date
DaysNoLast(date_start, date_end) ==
  [i \in 1..(date_end - date_start) |-> date_start + i - 1]
days(date_start, date_end) ==
  IF date_end < date_start THEN << >>
  ELSE [i \in 1..(date_end - date_start + 1) |-> date_start + i - 1]

\* all possible group keys in groupby's sorted order
KeySeq ==
  [i \in 1..(Len(HospitalOrder) * Len(UnitOrder)) |->
     [hospital |-> HospitalOrder[((i - 1) \div Len(UnitOrder)) + 1],
      unit_id  |-> UnitOrder[((i - 1) % Len(UnitOrder)) + 1]]]

HasKey(df, k) ==
  \E i \in 1..Len(df) : df[i].hospital = k.hospital /\ df[i].unit_id = k.unit_id

\* df.groupby(["hospital","unit_id"]): the keys present, sorted
GroupKeys(df) == SelectSeq(KeySeq, LAMBDA k : HasKey(df, k))

\* ((g["admit_d"] <= d) & (g["discharge_d"] > d)).sum() for group k
Census(df, k, d) ==
  Cardinality({i \in 1..Len(df) :
     df[i].hospital = k.hospital /\ df[i].unit_id = k.unit_id /\ Active(df[i], d)})

\* lines 148-160: one row per group and day, groups in key order
CensusFrame(df, date_start, date_end) ==
  LET ds == days(date_start, date_end)
      gs == GroupKeys(df)
      n  == Len(ds)
  IN [i \in 1..(Len(gs) * n) |->
        LET k == gs[((i - 1) \div n) + 1]
            d == ds[((i - 1) % n) + 1]
        IN [hospital |-> k.hospital, unit_id |-> k.unit_id, date |-> d,
            census |-> Census(df, k, d)]]

\* ------------------------------------------------------------ capacity join
\* Series / Series: a division by zero gives inf or nan, it does not raise
true_divide(c, b) ==
  IF b = 0 THEN (IF c = 0 THEN NaN ELSE Inf) ELSE [num |-> c, den |-> b]

times100(x) == [num |-> x.num * 100, den |-> x.den]

\* lines 166-167: np.where(staffed_beds > 0, census / staffed_beds * 100.0, nan)
OccPctGeq(c, b) ==
  IF b >= 0 THEN times100(true_divide(c, b)) ELSE NaN
OccPct(c, b) ==
  IF b > 0 THEN times100(true_divide(c, b)) ELSE NaN

\* the rows of beds_ref matching a census row, in beds_ref's order
Matches(row, beds) ==
  SelectSeq(beds, LAMBDA b : b.hospital = row.hospital /\ b.unit_id = row.unit_id)

OutRow(row, b) ==
  [hospital |-> row.hospital, unit_id |-> row.unit_id, date |-> row.date,
   census |-> row.census, staffed_beds |-> b, occ_pct |-> OccPct(row.census, b)]

\* lines 163-165: the left merge of one census row; no match gives NaN, filled with 0
MergeRow(row, beds) ==
  LET m == Matches(row, beds)
  IN IF m = << >> THEN << OutRow(row, 0) >>
     ELSE [j \in 1..Len(m) |-> OutRow(row, m[j].baseline_staffed_beds)]

RECURSIVE Merge(_, _)
Merge(census, beds) ==
  IF census = << >> THEN << >>
  ELSE MergeRow(Head(census), beds) \o Merge(Tail(census), beds)

\* lines 129-168
ComputeNoEmptyCheck(df, beds, date_start, date_end) ==
  IF df = << >>
  THEN Merge([i \in 1..Len(days(date_start, date_end)) |->
               [hospital |-> HospitalOrder[1], unit_id |-> UnitOrder[1],
                date |-> days(date_start, date_end)[i], census |-> 0]], beds)
  ELSE Merge(CensusFrame(df, date_start, date_end), beds)
compute_daily_true_occupancy(df, beds, date_start, date_end) ==
  IF df = << >> THEN << >>
  ELSE Merge(CensusFrame(df, date_start, date_end), beds)

\* ------------------------------------------------------------ query
\* a parameter left at its default None (dates are numbers, names are strings)
NoDate == -2
None == "None"

\* str(date) bound to date(?): the text of a calendar day, at midnight
date_str(d) == [kind |-> "iso", day |-> d, hour |-> 0]

\* a SQL comparison with a NULL operand is not true
sql_ge(a, b) == a # NaT /\ b # NaT /\ a >= b
sql_le(a, b) == a # NaT /\ b # NaT /\ a <= b

\* lines 104-118: the WHERE clause built from the parameters
Where(r, date_from, date_to, hospital, unit) ==
  /\ date_from # NoDate => sql_ge(sql_date(r.admit_ts), sql_date(date_str(date_from)))
  /\ date_to # NoDate => sql_le(sql_date(r.admit_ts), sql_date(date_str(date_to)))
  /\ (hospital # None /\ hospital # "All") => r.hospital = hospital
  /\ (unit # None /\ unit # "All") => r.unit_id = unit

\* lines 121-122: the two timestamp columns coerced
Coerce(r) ==
  [encounter_id |-> r.encounter_id, hospital |-> r.hospital, unit_id |-> r.unit_id,
   admit_ts |-> to_datetime(r.admit_ts), discharge_ts |-> to_datetime(r.discharge_ts)]

\* lines 100-125 without the memoization: the query of the admissions table
load_admissions(rows, date_from, date_to, hospital, unit) ==
  LET hit == SelectSeq(rows, LAMBDA r : Where(r, date_from, date_to, hospital, unit))
  IN [i \in 1..Len(hit) |-> Coerce(hit[i])]

\* lines 59-70: MIN and MAX of date(admit_ts), NULL dates ignored; no row with
\* a date gives None, and .date() of it raises
ValidAdmitDays(rows) ==
  {sql_date(rows[i].admit_ts) : i \in 1..Len(rows)} \ {NaT}

get_date_bounds(rows) ==
  LET ds == ValidAdmitDays(rows)
  IN IF ds = {} THEN [raised |-> TRUE, dmin |-> NoDate, dmax |-> NoDate]
     ELSE [raised |-> FALSE,
           dmin |-> CHOOSE d \in ds : \A x \in ds : d <= x,
           dmax |-> CHOOSE d \in ds : \A x \in ds : d >= x]

\* lines 74-85: the hospitals and units of the admissions table
get_distinct_values(rows) ==
  [hospitals |-> {rows[i].hospital : i \in 1..Len(rows)},
   units |-> {rows[i].unit_id : i \in 1..Len(rows)}]

\* ------------------------------------------------------------ state
VARIABLES
  schema_present,    \* schema.sql exists
  data_dir_present,  \* data/ exists
  csv_present,       \* the tables whose CSV file exists in data/
  schema_kind,       \* whether schema.sql tolerates tables that exist already
  db_exists,         \* hospital.db exists
  has_tables,        \* the schema script has run on hospital.db
  db_tables,         \* the rows of each table of hospital.db
  refs_cache,        \* st.cache_data entry of load_refs, << >> when absent
  bounds_cache,      \* st.cache_data entry of get_date_bounds
  distinct_cache,    \* st.cache_data entry of get_distinct_values
  adm_cache,         \* st.cache_data entries of load_admissions, by argument tuple
  store_hit,         \* whether the last load_admissions call queried the store
  bootstrap,         \* how ensure_db_exists ended in the last script run
  pc,                \* where the last script run ended
  error,             \* the st.error message of the last script run
  hospital, unit,    \* the select boxes' values
  date_range,        \* the date input's value
  beds_ref,          \* the bed_capacity frame of the run
  adm,               \* the encounter frame of the run
  true_occ           \* the frame compute_daily_true_occupancy returned

files == <<schema_present, data_dir_present, csv_present, schema_kind>>
store == <<db_exists, has_tables, db_tables>>
caches == <<refs_cache, bounds_cache, distinct_cache, adm_cache>>
run == <<store_hit, bootstrap, pc, error, hospital, unit, date_range, beds_ref, adm, true_occ>>
vars == <<files, store, caches, run>>

\* ------------------------------------------------------------ files and store
MaxLoads == 2
MaxCached == 2
MaxMissing == 1

\* the tables in the order the CSV files are loaded (line 38, lines 14-18)
TableOrder == <<"patients", "units", "bed_capacity", "staff", "admissions">>
Tables == {TableOrder[i] : i \in 1..Len(TableOrder)}

Iso(d, h) == [kind |-> "iso", day |-> d, hour |-> h]
Text == [kind |-> "text", day |-> 0, hour |-> 0]
Null == [kind |-> "null", day |-> 0, hour |-> 0]

\* the contents of the CSV files of the deployment
AdmissionsCsv ==
  << [encounter_id |-> 1, hospital |-> "H1", unit_id |-> "ICU",
      admit_ts |-> Iso(0, 23), discharge_ts |-> Iso(2, 0)],
     [encounter_id |-> 2, hospital |-> "H1", unit_id |-> "ICU",
      admit_ts |-> Iso(1, 0), discharge_ts |-> Iso(1, 23)],
     [encounter_id |-> 3, hospital |-> "H1", unit_id |-> "ICU",
      admit_ts |-> Iso(1, 0), discharge_ts |-> Text] >>

BedCapacityCsv ==
  << [hospital |-> "H1", unit_id |-> "ICU", baseline_staffed_beds |-> 2] >>

Csv(name) ==
  CASE name = "admissions" -> AdmissionsCsv
    [] name = "bed_capacity" -> BedCapacityCsv
    [] OTHER -> << [id |-> 1] >>

EmptyTables == [t \in Tables |-> << >>]

\* how many CSV files, in loading order, are there before the first missing one
PresentPrefix ==
  IF ~ data_dir_present THEN 0
  ELSE IF \A i \in 1..Len(TableOrder) : TableOrder[i] \in csv_present
       THEN Len(TableOrder)
       ELSE (CHOOSE i \in 1..Len(TableOrder) :
               /\ TableOrder[i] \notin csv_present
               /\ \A j \in 1..(i - 1) : TableOrder[j] \in csv_present) - 1

\* df.to_sql(name, con, if_exists="append") for the first n tables
AppendPrefix(tables, n) ==
  [t \in Tables |->
     IF \E i \in 1..n : TableOrder[i] = t THEN tables[t] \o Csv(t) ELSE tables[t]]

\* lines 23-47: what the bootstrap does to the store and how it ends
EnsureSkipsMissingCsv ==
  IF db_exists
  THEN [status |-> "skipped", error |-> "", db_exists |-> db_exists,
        has_tables |-> has_tables, db_tables |-> db_tables]
  ELSE IF ~ schema_present
  THEN [status |-> "halted", error |-> "schema.sql not found", db_exists |-> FALSE,
        has_tables |-> has_tables, db_tables |-> db_tables]
  ELSE IF ~ data_dir_present
  THEN [status |-> "halted", error |-> "data/ folder not found", db_exists |-> FALSE,
        has_tables |-> has_tables, db_tables |-> db_tables]
  ELSE [status |-> "ingested", error |-> "", db_exists |-> TRUE, has_tables |-> TRUE,
        db_tables |-> [t \in Tables |->
                         IF t \in csv_present THEN db_tables[t] \o Csv(t)
                         ELSE db_tables[t]]]
ensure_db_exists ==
  IF db_exists
  THEN [status |-> "skipped", error |-> "", db_exists |-> db_exists,
        has_tables |-> has_tables, db_tables |-> db_tables]
  ELSE IF ~ schema_present
  THEN [status |-> "halted", error |-> "schema.sql not found", db_exists |-> FALSE,
        has_tables |-> has_tables, db_tables |-> db_tables]
  ELSE IF ~ data_dir_present
  THEN [status |-> "halted", error |-> "data/ folder not found", db_exists |-> FALSE,
        has_tables |-> has_tables, db_tables |-> db_tables]
  ELSE [status |-> IF PresentPrefix < Len(TableOrder) THEN "halted" ELSE "ingested",
        error |-> IF PresentPrefix < Len(TableOrder) THEN "Missing csv" ELSE "",
        db_exists |-> TRUE, has_tables |-> TRUE,
        db_tables |-> AppendPrefix(db_tables, PresentPrefix)]

\* lines 89-97
load_refs(tables) ==
  [units |-> tables["units"], beds |-> tables["bed_capacity"], staff |-> tables["staff"]]

\* ------------------------------------------------------------ input domains
Stamps == {d * 24 + h : d \in Days, h \in Hours} \cup {NaT}

Keys == {KeySeq[i] : i \in 1..Len(KeySeq)}

\* position of a row's key in the sort order
KeyRank(e) ==
  CHOOSE i \in 1..Len(KeySeq) :
    KeySeq[i].hospital = e.hospital /\ KeySeq[i].unit_id = e.unit_id

EncRank(e) == (KeyRank(e) * 1000 + (e.admit_ts + 1)) * 1000 + (e.discharge_ts + 1)

\* the data model's invariant: discharge_ts > admit_ts when both are present
EncounterOk(e) ==
  (e.admit_ts # NaT /\ e.discharge_ts # NaT) => e.discharge_ts > e.admit_ts

\* encounter frames of at most MaxEnc rows (rows in a canonical order: the
\* computation does not depend on the order of the rows)
Frames ==
  UNION {{f \in [1..n -> [hospital : Hospitals, unit_id : Units,
                          admit_ts : Stamps, discharge_ts : Stamps]] :
            /\ \A i \in 1..n : EncounterOk(f[i])
            /\ \A i \in 1..(n - 1) : EncRank(f[i]) <= EncRank(f[i + 1])}
         : n \in 0..MaxEnc}

\* capacity references with at most one record for a (hospital, unit_id)
BedsRefs ==
  {<< >>} \cup
  {<< [hospital |-> k.hospital, unit_id |-> k.unit_id, baseline_staffed_beds |-> b] >>
     : k \in Keys, b \in 0..MaxBeds}

FilesComplete ==
  /\ schema_present = TRUE
  /\ data_dir_present = TRUE
  /\ csv_present = Tables
  /\ schema_kind = "create_table"

CachesEmpty ==
  /\ refs_cache = << >>
  /\ bounds_cache = << >>
  /\ distinct_cache = << >>
  /\ adm_cache = {}

\* ------------------------------------------------------------ the function alone
InitCensus ==
  /\ FilesComplete
  /\ db_exists = FALSE /\ has_tables = FALSE /\ db_tables = EmptyTables
  /\ CachesEmpty
  /\ store_hit = FALSE /\ bootstrap = "" /\ error = ""
  /\ hospital = "All" /\ unit = "All"
  /\ adm \in Frames
  /\ beds_ref \in BedsRefs
  /\ date_range = << >>
  /\ true_occ = << >>
  /\ pc = "input"

\* a call of compute_daily_true_occupancy with a window date_start <= date_end
Compute ==
  /\ pc = "input"
  /\ \E s \in Days : \E e \in s..MaxDay :
       /\ date_range' = <<s, e>>
       /\ true_occ' = compute_daily_true_occupancy(adm, beds_ref, s, e)
  /\ pc' = "done"
  /\ UNCHANGED <<files, store, caches, store_hit, bootstrap, error, hospital, unit,
                 adm, beds_ref>>

NextCensus == Compute

SpecCensus == InitCensus /\ [][NextCensus]_vars

\* ------------------------------------------------------------ the script
\* st.cache_data (line 100) keys an entry by the values of all the arguments
CacheKey(df, dt, h, u) == <<df, dt, h, u>>

CacheKeys == {e.key : e \in adm_cache}
Cached(key) == (CHOOSE e \in adm_cache : e.key = key).value

\* lines 187-212: the data pull and the TRUE occupancy, with the widgets set to
\* (df, dt, h, u); refs, bounds and distinct are what the cached helpers returned
Pull(rows, refs, bounds, distinct, df, dt, h, u) ==
  LET key == CacheKey(df, dt, h, u)
      frame == IF key \in CacheKeys THEN Cached(key)
               ELSE load_admissions(rows, df, dt, h, u)
  IN
  /\ key \in CacheKeys \/ Cardinality(adm_cache) < MaxCached
  /\ refs_cache' = << refs >>
  /\ bounds_cache' = << bounds >>
  /\ distinct_cache' = << distinct >>
  /\ adm_cache' = IF key \in CacheKeys THEN adm_cache
                  ELSE adm_cache \cup {[key |-> key, value |-> frame]}
  /\ store_hit' = (key \notin CacheKeys)
  /\ error' = ""
  /\ hospital' = h /\ unit' = u /\ date_range' = <<df, dt>>
  /\ beds_ref' = refs.beds
  /\ adm' = frame
  /\ IF Len(frame) = 0
     THEN pc' = "no_data" /\ true_occ' = << >>
     ELSE /\ pc' = "served"
          /\ true_occ' = compute_daily_true_occupancy(frame, refs.beds, df, dt)

NoOutput ==
  /\ hospital' = "All" /\ unit' = "All" /\ date_range' = << >>
  /\ adm' = << >> /\ true_occ' = << >>

\* lines 50-212: one run of the script
Rerun ==
  LET boot == ensure_db_exists
      rows == boot.db_tables["admissions"]
      refs == IF refs_cache # << >> THEN refs_cache[1] ELSE load_refs(boot.db_tables)
      bounds == IF bounds_cache # << >> THEN bounds_cache[1] ELSE get_date_bounds(rows)
      distinct == IF distinct_cache # << >> THEN distinct_cache[1]
                  ELSE get_distinct_values(rows)
  IN
  /\ db_exists' = boot.db_exists
  /\ has_tables' = boot.has_tables
  /\ db_tables' = boot.db_tables
  /\ bootstrap' = boot.status
  /\ UNCHANGED files
  /\ IF boot.status = "halted"
     THEN \* st.error, st.stop in ensure_db_exists
          /\ pc' = "halted" /\ error' = boot.error
          /\ beds_ref' = << >> /\ NoOutput
          /\ UNCHANGED <<caches, store_hit>>
     ELSE IF refs_cache = << >> /\ ~ boot.has_tables
     THEN \* load_refs raises: no such table
          /\ pc' = "error" /\ error' = ""
          /\ beds_ref' = << >> /\ NoOutput
          /\ UNCHANGED <<caches, store_hit>>
     ELSE IF bounds.raised
     THEN \* get_date_bounds raises: .date() of None
          /\ pc' = "error" /\ error' = ""
          /\ refs_cache' = << refs >>
          /\ beds_ref' = refs.beds /\ NoOutput
          /\ UNCHANGED <<bounds_cache, distinct_cache, adm_cache, store_hit>>
     ELSE \* the widgets offer the dates, hospitals and units of the store
          \E df \in bounds.dmin..bounds.dmax, dt \in bounds.dmin..bounds.dmax,
             h \in {"All"} \cup distinct.hospitals, u \in {"All"} \cup distinct.units :
            /\ df <= dt
            /\ Pull(rows, refs, bounds, distinct, df, dt, h, u)

\* the server process is restarted: the st.cache_data entries are gone
Restart ==
  /\ pc # "idle"
  /\ refs_cache' = << >> /\ bounds_cache' = << >> /\ distinct_cache' = << >>
  /\ adm_cache' = {}
  /\ store_hit' = FALSE /\ bootstrap' = "" /\ pc' = "idle" /\ error' = ""
  /\ hospital' = "All" /\ unit' = "All" /\ date_range' = << >>
  /\ beds_ref' = << >> /\ adm' = << >> /\ true_occ' = << >>
  /\ UNCHANGED <<files, store>>

\* make_sqlite.py, lines 6-21
MakeSqlite ==
  /\ \A t \in Tables : Len(db_tables[t]) < MaxLoads * Len(Csv(t))
  /\ db_exists' = TRUE
  /\ IF ~ schema_present
     THEN \* open("schema.sql") raises; connect has created the file
          UNCHANGED <<has_tables, db_tables>>
     ELSE IF has_tables /\ schema_kind = "create_table"
     THEN \* CREATE TABLE raises: the table exists already
          UNCHANGED <<has_tables, db_tables>>
     ELSE \* read_csv raises at the first missing file, the tables before it are loaded
          /\ has_tables' = TRUE
          /\ db_tables' = AppendPrefix(db_tables, PresentPrefix)
  /\ UNCHANGED <<files, caches, run>>

\* the CSV files that may be in data/: at most MaxMissing of them are missing
FileSets == {S \in SUBSET Tables : Cardinality(Tables \ S) <= MaxMissing}

\* the operator adds or removes schema.sql, data/ or a CSV file of data/
EnvChange ==
  /\ \/ /\ schema_present' = ~ schema_present
        /\ UNCHANGED <<data_dir_present, csv_present>>
     \/ /\ data_dir_present
        /\ data_dir_present' = FALSE /\ csv_present' = {}
        /\ UNCHANGED schema_present
     \/ /\ ~ data_dir_present
        /\ data_dir_present' = TRUE /\ csv_present' \in FileSets
        /\ UNCHANGED schema_present
     \/ /\ data_dir_present
        /\ \E t \in Tables :
             /\ csv_present' = IF t \in csv_present THEN csv_present \ {t}
                               ELSE csv_present \cup {t}
             /\ csv_present' \in FileSets
        /\ UNCHANGED <<schema_present, data_dir_present>>
  /\ UNCHANGED <<schema_kind, store, caches, run>>

Init ==
  /\ schema_present \in BOOLEAN
  /\ data_dir_present \in BOOLEAN
  /\ csv_present \in (IF data_dir_present THEN FileSets ELSE {{}})
  /\ schema_kind \in {"create_table", "create_table_if_not_exists"}
  /\ db_exists = FALSE /\ has_tables = FALSE /\ db_tables = EmptyTables
  /\ CachesEmpty
  /\ store_hit = FALSE /\ bootstrap = "" /\ pc = "idle" /\ error = ""
  /\ hospital = "All" /\ unit = "All" /\ date_range = << >>
  /\ beds_ref = << >> /\ adm = << >> /\ true_occ = << >>

Next == Rerun \/ Restart \/ MakeSqlite \/ EnvChange

Spec == Init /\ [][Next]_vars

NextDash == Rerun \/ Restart \/ EnvChange

SpecDash == Init /\ [][NextDash]_vars

\* ------------------------------------------------------------ the data pull
RawStamps == {Iso(d, h) : d \in Days, h \in Hours} \cup {Text, Null}

RawRank(raw) ==
  IF raw.kind = "iso" THEN raw.day * 24 + raw.hour + 2
  ELSE IF raw.kind = "text" THEN 1 ELSE 0

RowRank(r) == (KeyRank(r) * 1000 + RawRank(r.admit_ts)) * 1000 + RawRank(r.discharge_ts)

\* the data model's invariant on the rows of the admissions table
RowOk(r) ==
  (r.admit_ts.kind = "iso" /\ r.discharge_ts.kind = "iso") =>
     to_datetime(r.discharge_ts) > to_datetime(r.admit_ts)

\* admissions tables of at most MaxEnc rows, encounter_id being the row number
AdmissionTables ==
  UNION {{f \in [1..n -> [encounter_id : 1..n, hospital : Hospitals, unit_id : Units,
                          admit_ts : RawStamps, discharge_ts : RawStamps]] :
            /\ \A i \in 1..n : f[i].encounter_id = i /\ RowOk(f[i])
            /\ \A i \in 1..(n - 1) : RowRank(f[i]) <= RowRank(f[i + 1])}
         : n \in 0..MaxEnc}

\* the store has been loaded from some admissions.csv; the server has just started
InitPull ==
  /\ FilesComplete
  /\ db_exists = TRUE /\ has_tables = TRUE
  /\ \E rows \in AdmissionTables :
       db_tables = [t \in Tables |-> IF t = "admissions" THEN rows ELSE Csv(t)]
  /\ CachesEmpty
  /\ store_hit = FALSE /\ bootstrap = "" /\ pc = "idle" /\ error = ""
  /\ hospital = "All" /\ unit = "All" /\ date_range = << >>
  /\ beds_ref = << >> /\ adm = << >> /\ true_occ = << >>

\* load_admissions() with its parameters left at None (line 101), and the
\* occupancy of its result over a window
CallDefault ==
  /\ pc = "idle"
  /\ LET frame == load_admissions(db_tables["admissions"], NoDate, NoDate, None, None)
         beds == load_refs(db_tables).beds
     IN \E s \in Days : \E e \in s..MaxDay :
          /\ adm' = frame
          /\ beds_ref' = beds
          /\ date_range' = <<s, e>>
          /\ true_occ' = compute_daily_true_occupancy(frame, beds, s, e)
          /\ adm_cache' = {[key |-> CacheKey(NoDate, NoDate, None, None),
                             value |-> frame]}
          /\ refs_cache' = << load_refs(db_tables) >>
  /\ hospital' = None /\ unit' = None
  /\ store_hit' = TRUE /\ pc' = "called" /\ error' = ""
  /\ UNCHANGED <<files, store, bounds_cache, distinct_cache, bootstrap>>

FirstRun == pc = "idle" /\ Rerun

NextPull == FirstRun \/ CallDefault

SpecPull == InitPull /\ [][NextPull]_vars

\* ------------------------------------------------------------ claims: census
RowsOf(k) ==
  {i \in 1..Len(true_occ) :
     true_occ[i].hospital = k.hospital /\ true_occ[i].unit_id = k.unit_id}

\* C1: for a non-empty encounter set and a window s <= e, every group present
\* in the input has exactly (e - s) + 1 rows, exactly one for each day of the
\* window and none for another day, whatever its census or capacity record.
T_C1_Coverage ==
  (pc = "done" /\ adm # << >>) =>
    \A k \in Keys : HasKey(adm, k) =>
      /\ Cardinality(RowsOf(k)) = (date_range[2] - date_range[1]) + 1
      /\ \A d \in date_range[1]..date_range[2] :
           Cardinality({i \in RowsOf(k) : true_occ[i].date = d}) = 1
      /\ \A i \in RowsOf(k) : true_occ[i].date \in date_range[1]..date_range[2]

W_C1_Coverage ==
  /\ pc = "done"
  /\ date_range[2] - date_range[1] >= 2
  /\ Cardinality({k \in Keys : HasKey(adm, k)}) = 2
  /\ \E i \in 1..Len(true_occ) :
       /\ true_occ[i].census = 0
       /\ Matches(true_occ[i], beds_ref) = << >>
  /\ \E i \in 1..Len(true_occ) : true_occ[i].census > 0

\* what one encounter adds to the census of day d: admitted on day A and
\* discharged on day B > A, 1 on each of A..B-1; otherwise nothing
Contribution(e, d) ==
  IF e.admit_ts = NaT \/ e.discharge_ts = NaT THEN 0
  ELSE LET A == e.admit_ts \div 24
           B == e.discharge_ts \div 24
       IN IF A < B /\ d \in A..(B - 1) THEN 1 ELSE 0

RECURSIVE SumContribution(_, _, _)
SumContribution(df, k, d) ==
  IF df = << >> THEN 0
  ELSE (IF Head(df).hospital = k.hospital /\ Head(df).unit_id = k.unit_id
        THEN Contribution(Head(df), d) ELSE 0)
       + SumContribution(Tail(df), k, d)

\* C2: half-open interval law: the census of a group on day D is the sum of
\* its encounters' contributions, an encounter admitted on day A and
\* discharged on day B > A counting on A..B-1 only, a same-day stay on no day.
T_C2_HalfOpen ==
  pc = "done" =>
    \A i \in 1..Len(true_occ) :
      true_occ[i].census = SumContribution(adm, true_occ[i], true_occ[i].date)

\* a stay from 23:00 of day 0 to 00:00 of day 2 and a same-day stay on day 1,
\* in one group, over the window 0..2
W_C2_HalfOpen ==
  /\ pc = "done" /\ date_range = <<0, 2>>
  /\ \E j, k \in 1..Len(adm) :
       /\ adm[j].hospital = adm[k].hospital /\ adm[j].unit_id = adm[k].unit_id
       /\ adm[j].admit_ts = 23 /\ adm[j].discharge_ts = 2 * 24
       /\ adm[k].admit_ts = 24 /\ adm[k].discharge_ts = 24 + 23
       /\ \E i \in 1..Len(true_occ) :
            /\ true_occ[i].hospital = adm[j].hospital
            /\ true_occ[i].unit_id = adm[j].unit_id
            /\ true_occ[i].census = 1 /\ true_occ[i + 1].census = 1
            /\ true_occ[i + 2].census = 0
            /\ true_occ[i].date = 0 /\ true_occ[i + 2].date = 2

\* the capacity records of beds_ref for a key
RecordsFor(k) ==
  {j \in 1..Len(beds_ref) :
     beds_ref[j].hospital = k.hospital /\ beds_ref[j].unit_id = k.unit_id}

\* C3: every row's staffed_beds is the baseline_staffed_beds of the capacity
\* record of its (hospital, unit_id), 0 without one; occ_pct is NaN exactly
\* when staffed_beds = 0, and census / staffed_beds * 100 otherwise.
T_C3_CapacityJoin ==
  pc = "done" =>
    \A i \in 1..Len(true_occ) :
      LET r == true_occ[i] IN
      /\ IF RecordsFor(r) = {} THEN r.staffed_beds = 0
         ELSE \E j \in RecordsFor(r) : r.staffed_beds = beds_ref[j].baseline_staffed_beds
      /\ (r.occ_pct = NaN) <=> (r.staffed_beds = 0)
      /\ r.staffed_beds # 0 =>
           /\ r.occ_pct.den # 0
           /\ r.occ_pct.num * r.staffed_beds = r.census * 100 * r.occ_pct.den

W_C3_CapacityJoin ==
  /\ pc = "done"
  /\ \E i \in 1..Len(true_occ) :
       /\ true_occ[i].staffed_beds = 2 /\ true_occ[i].census = 1
       /\ true_occ[i].occ_pct = [num |-> 100, den |-> 2]
  /\ \E i \in 1..Len(true_occ) :
       /\ true_occ[i].staffed_beds = 2 /\ true_occ[i].census = 0
       /\ true_occ[i].occ_pct # NaN
  /\ \E i \in 1..Len(true_occ) :
       /\ RecordsFor(true_occ[i]) = {} /\ true_occ[i].census > 0
       /\ true_occ[i].occ_pct = NaN

\* C8: an empty encounter set gives an empty result, with no day-grid rows.
T_C8_EmptyInput ==
  (pc = "done" /\ adm = << >>) => true_occ = << >>

W_C8_EmptyInput ==
  /\ pc = "done" /\ adm = << >>
  /\ beds_ref # << >>
  /\ date_range[2] > date_range[1]
  /\ true_occ = << >>

\* ------------------------------------------------------------ claims: data pull
StoreRow(e) == db_tables["admissions"][e.encounter_id]

WellFormed(r) == r.admit_ts.kind = "iso" /\ r.discharge_ts.kind = "iso"

\* C4: a malformed or missing admit or discharge timestamp becomes NaT in the
\* frame load_admissions returns, and the census of every day counts exactly
\* the well-formed encounters of the group that are active on it: an encounter
\* with a NaT is counted on no day, the others as usual.
T_C4_Malformed ==
  pc \in {"served", "called"} =>
    /\ \A i \in 1..Len(adm) :
         /\ StoreRow(adm[i]).admit_ts.kind # "iso" => adm[i].admit_ts = NaT
         /\ StoreRow(adm[i]).discharge_ts.kind # "iso" => adm[i].discharge_ts = NaT
         /\ WellFormed(StoreRow(adm[i])) =>
              adm[i].admit_ts # NaT /\ adm[i].discharge_ts # NaT
    /\ \A j \in 1..Len(true_occ) :
         true_occ[j].census =
           Cardinality({i \in 1..Len(adm) :
              /\ adm[i].hospital = true_occ[j].hospital
              /\ adm[i].unit_id = true_occ[j].unit_id
              /\ WellFormed(StoreRow(adm[i]))
              /\ StoreRow(adm[i]).admit_ts.day <= true_occ[j].date
              /\ StoreRow(adm[i]).discharge_ts.day > true_occ[j].date})

W_C4_Malformed ==
  /\ pc = "served"
  /\ \E i, k \in 1..Len(adm) : \E j \in 1..Len(true_occ) :
       /\ adm[i].hospital = adm[k].hospital /\ adm[i].unit_id = adm[k].unit_id
       /\ StoreRow(adm[i]).discharge_ts.kind # "iso"
       /\ WellFormed(StoreRow(adm[k]))
       /\ true_occ[j].hospital = adm[i].hospital
       /\ true_occ[j].unit_id = adm[i].unit_id
       /\ StoreRow(adm[i]).admit_ts.day <= true_occ[j].date
       /\ true_occ[j].census = 1

\* the encounters of the store of a group that are in the unit on day d
TrueCensus(rows, k, d) ==
  Cardinality({i \in 1..Len(rows) :
     /\ rows[i].hospital = k.hospital /\ rows[i].unit_id = k.unit_id
     /\ WellFormed(rows[i])
     /\ rows[i].admit_ts.day <= d /\ rows[i].discharge_ts.day > d})

\* C9: the census the dashboard shows for a day of the selected window and a
\* selected (hospital, unit) is the number of encounters of the store for that
\* group active on that day, patients admitted before the window included.
CE_C9_ConcurrentCensus ==
  pc = "served" =>
    \A j \in 1..Len(true_occ) :
      true_occ[j].census = TrueCensus(db_tables["admissions"], true_occ[j], true_occ[j].date)

\* ------------------------------------------------------------ claims: bootstrap
\* C5: once the store file exists, an ingestion run (ensure_db_exists in a
\* script run, or make_sqlite.py) is skipped and leaves every table as it is,
\* so no input row is ever appended a second time.
CE_C5_IdempotentOnce ==
  [][db_exists => db_tables' = db_tables]_vars

InputMissing ==
  ~ schema_present \/ ~ data_dir_present \/ csv_present # Tables

\* C6: a script run that has to ingest (hospital.db does not exist) while
\* schema.sql, data/ or one of the five CSV files is missing reports an error
\* and halts in ensure_db_exists: no widget is drawn, nothing is queried or
\* computed.
T_C6_MissingFilesHalt ==
  [][(Rerun /\ ~ db_exists /\ InputMissing) =>
        /\ pc' = "halted"
        /\ error' \in {"schema.sql not found", "data/ folder not found", "Missing csv"}
        /\ date_range' = << >> /\ adm' = << >> /\ true_occ' = << >>
        /\ UNCHANGED caches]_vars

W_C6_MissingFilesHalt ==
  /\ pc = "halted" /\ error = "Missing csv"
  /\ db_exists
  /\ db_tables["patients"] # << >>
  /\ db_tables["admissions"] = << >>

CacheInvariant ==
  /\ \A e1, e2 \in adm_cache : e1.key = e2.key => e1 = e2
  /\ pc \in {"served", "no_data"} =>
       /\ <<date_range[1], date_range[2], hospital, unit>> \in CacheKeys
       /\ adm = Cached(<<date_range[1], date_range[2], hospital, unit>>)
  /\ \A e \in adm_cache :
       e.value = load_admissions(db_tables["admissions"],
                                 e.key[1], e.key[2], e.key[3], e.key[4])

\* C7: load_admissions is memoized by its argument tuple.  After every step
\* there is one entry for a tuple, the frame of the run is the entry of the
\* run's own tuple, and every entry equals what a fresh query of the store
\* with its tuple returns; a run whose tuple has an entry takes the entry
\* without querying the store; an entry stays as it is until the restart of
\* the server.
CE_C7_Memoized ==
  [][/\ CacheInvariant'
     /\ (Rerun /\ pc' \in {"served", "no_data"}
           /\ <<date_range'[1], date_range'[2], hospital', unit'>> \in CacheKeys) =>
          /\ ~ store_hit'
          /\ adm' = Cached(<<date_range'[1], date_range'[2], hospital', unit'>>)
          /\ adm_cache' = adm_cache
     /\ (Rerun /\ pc' \in {"served", "no_data"}
           /\ <<date_range'[1], date_range'[2], hospital', unit'>> \notin CacheKeys) =>
          store_hit'
     /\ pc' # "idle" => adm_cache \subseteq adm_cache']_vars

StoreComplete == \A t \in Tables : db_tables[t] = Csv(t)

====
